---- MODULE Spec2Model ----
(***************************************************************************)
(* Model of the AI group chat backend (backend/main.py, room_manager.py,   *)
(* database.py, deepseek_client.py): the presence registry (ChatState),    *)
(* the Socket.IO room index, the persistent store, and the AI request      *)
(* coordinator (process_ai_queue / handle_ai_request) with the provider    *)
(* call running in the thread pool.                                        *)
(***************************************************************************)
EXTENDS Integers, Sequences, FiniteSets, TLC

(* ------------------------------ bounds -------------------------------- *)
\* number of chat_message events handled in one run (also the request ids)
MaxChat == 2
\* number of fragments the provider yields in one stream
MaxChunks == 2
\* number of injected failures (store or transport exceptions) in one run
MaxFaults == 2
\* length of the chat texts that the mention pattern is tried on
MaxLen == 7
\* number of messages the store holds from earlier runs of the server
MaxHistory == 11

(* ----------------------------- input sets ----------------------------- *)
SIDs == {"s1", "s2"}
Names == {"alice", "bob"}
\* the name each connection registers with
NameOf == [s \in SIDs |-> IF s = "s1" THEN "alice" ELSE "bob"]
RoomNames == {"General", "dev"}
\* chat texts, as sequences of characters (already stripped)
Texts == { <<"x">>, <<"@", "a", "i", " ", "x">> }
\* the provider's stream: its k-th fragment (a non-empty delta); a run of
\* the provider yields a prefix of the stream
Alphabet == <<"h", "e", "l", "o", "w">>
Fragment(k) == << Alphabet[((k - 1) % Len(Alphabet)) + 1] >>
\* the connections that send events (every connection in SIDs is connected)
Chatters == {"s1"}
ReqIds == 1..MaxChat

\* absent dictionary entries / NULL columns
NoName == ""
None == 0

VARIABLES
    users,              \* ChatState.users: sid -> username (NoName: absent)
    user_db_ids,        \* ChatState.user_db_ids: sid -> users.id (None: absent)
    user_current_rooms, \* ChatState.user_current_rooms: sid -> rooms.id
    sio_rooms,          \* Socket.IO room index: set of <<sid, room id>>
    db_users,           \* users table: sequence of usernames, id = position
    db_rooms,           \* rooms table: set of [id, name, created_by]
    db_members,         \* room_members table: set of [room_id, user_id, role]
    db_messages,        \* messages table, in insertion order
    clock,              \* datetime.now() as a logical clock of chat messages
    ai_queue,           \* ChatState.ai_queue
    ai_processing,      \* ChatState.ai_processing
    wpc,                \* position of the process_ai_queue task
    wreq,               \* the request the worker took last (its timestamp)
    h,                  \* per request: the handle_ai_request call's state
    trace,              \* per request: the AI events emitted, with receivers
    g,                  \* per request: history (activations, requeues, outcome)
    faults,             \* number of store/transport exceptions raised so far
    out,                \* what the last Socket.IO handler run emitted
    inbox,              \* per connection: the chat messages delivered to it
    pending             \* per connection: its handler suspended before set_user_room

vars == << users, user_db_ids, user_current_rooms, sio_rooms, db_users,
           db_rooms, db_members, db_messages, clock, ai_queue, ai_processing,
           wpc, wreq, h, trace, g, faults, out, inbox, pending >>

presenceVars == << users, user_db_ids, user_current_rooms, sio_rooms >>
storeVars == << db_users, db_rooms, db_members, db_messages >>
workerVars == << ai_processing, wpc, wreq, h, trace >>
\* what the room handlers leave alone: the AI queue, its worker and the clock
coordinatorVars == << clock, ai_queue, ai_processing, wpc, wreq, h, trace, g, faults >>

(* --------------------------- mention regex ---------------------------- *)
IsSpace(c) == c = " "

\* a variant of the pattern without the optional whitespace
SkipNoSpaces(s, j) == j

\* first position >= j of s that holds no whitespace (Len(s)+1 if none)
RECURSIVE SkipSpaces(_, _)
SkipSpaces(s, j) ==
    IF j <= Len(s) /\ IsSpace(s[j]) THEN SkipSpaces(s, j + 1) ELSE j

\* r'@\s*AI' with re.IGNORECASE anchored at position i:
\* the position of the last matched character, 0 when there is no match
MatchEnd(s, i) ==
    IF i <= Len(s) /\ s[i] = "@"
    THEN LET j == SkipSpaces(s, i + 1)
         IN  IF j + 1 <= Len(s) /\ s[j] \in {"a", "A"} /\ s[j + 1] \in {"i", "I"}
             THEN j + 1 ELSE 0
    ELSE 0

detect_ai_mention(message) ==
    \E i \in 1..Len(message) : MatchEnd(message, i) # 0

\* re.sub: drop every (leftmost, non-overlapping) match, scanning from i
RECURSIVE RemoveMentions(_, _)
RemoveMentions(s, i) ==
    IF i > Len(s) THEN <<>>
    ELSE IF MatchEnd(s, i) # 0 THEN RemoveMentions(s, MatchEnd(s, i) + 1)
    ELSE <<s[i]>> \o RemoveMentions(s, i + 1)

RECURSIVE LStrip(_)
LStrip(s) == IF s # <<>> /\ IsSpace(Head(s)) THEN LStrip(Tail(s)) ELSE s

RECURSIVE RStrip(_)
RStrip(s) ==
    IF s # <<>> /\ IsSpace(s[Len(s)]) THEN RStrip(SubSeq(s, 1, Len(s) - 1)) ELSE s

Strip(s) == RStrip(LStrip(s))

extract_ai_query(message) ==
    LET cleaned == Strip(RemoveMentions(message, 1))
    IN  IF cleaned # <<>> THEN cleaned ELSE message

(* ------------------------------ helpers ------------------------------- *)
default_room_id == 1

\* sio.emit(..., room="room_<id>"): the connections in that Socket.IO room
RoomSubscribers(room_id) == { s \in SIDs : <<s, room_id>> \in sio_rooms }

\* sio.emit(...) without room=: every connection
AllConnections == SIDs

MaxOf(S) == IF S = {} THEN 0 ELSE CHOOSE x \in S : \A y \in S : y <= x

RoomById(room_id) == { r \in db_rooms : r.id = room_id }

IsMember(user_id, room_id) ==
    \E m \in db_members : m.room_id = room_id /\ m.user_id = user_id

(* ------------------------- persistent store --------------------------- *)
\* DatabaseHelper.get_or_create_user: the users table afterwards
get_or_create_user(username) ==
    IF \E i \in 1..Len(db_users) : db_users[i] = username
    THEN db_users ELSE Append(db_users, username)

\* DatabaseHelper.add_user_to_room: the room_members table afterwards
add_user_to_room(members, user_id, room_id) ==
    IF RoomById(room_id) # {}
       /\ ~ \E m \in members : m.room_id = room_id /\ m.user_id = user_id
    THEN members \cup {[room_id |-> room_id, user_id |-> user_id, role |-> "member"]}
    ELSE members

Reverse(s) == [k \in 1..Len(s) |-> s[Len(s) + 1 - k]]

\* a variant that does not filter by room
get_recent_messages_AnyRoom(room_id, limit) ==
    LET desc == Reverse(db_messages)
    IN  Reverse(SubSeq(desc, 1, IF Len(desc) < limit THEN Len(desc) ELSE limit))

\* DatabaseHelper.get_recent_messages: filter_by(room_id), order_by
\* created_at descending, limit, and the result reversed (created_at is the
\* time of insertion)
get_recent_messages(room_id, limit) ==
    LET InRoom(m) == m.room_id = room_id
        desc == Reverse(SelectSeq(db_messages, InRoom))
    IN  Reverse(SubSeq(desc, 1, IF Len(desc) < limit THEN Len(desc) ELSE limit))

\* msg.user.username if msg.user else 'Unknown'
AuthorName(msg) ==
    IF msg.user_id \in 1..Len(db_users) THEN db_users[msg.user_id] ELSE "Unknown"

\* ChatState.get_context_for_ai: one turn per recent message of the room;
\* f"[{username}]: {content}" is the author name in brackets, a colon and a
\* space in front of the text
get_context_for_ai(room_id, max_messages) ==
    LET messages == get_recent_messages(room_id, max_messages)
    IN  [k \in 1..Len(messages) |->
            LET msg == messages[k]
            IN  [role |-> IF msg.is_ai THEN "assistant" ELSE "user",
                 content |-> IF msg.is_ai THEN msg.content
                             ELSE <<"[", AuthorName(msg), "]", ":", " ">> \o msg.content]]

\* DatabaseHelper.add_message: the messages table afterwards
add_message(room_id, user_id, content, is_ai, triggered_by, req) ==
    Append(db_messages,
           [room_id |-> room_id, user_id |-> user_id, content |-> content,
            is_ai |-> is_ai, triggered_by |-> triggered_by, req |-> req])

(* --------------------------- the AI queue ----------------------------- *)
\* a variant that puts at the front
QueuePutFront(q, request) == <<request>> \o q

\* asyncio.Queue.put: at the back
QueuePut(q, request) == Append(q, request)
\* asyncio.Queue.get: from the front
QueueFront(q) == Head(q)
QueueRest(q) == Tail(q)

(* --------------------------- initial state ---------------------------- *)
IdleCall == [pc |-> "idle", prov |-> "none", chunks |-> <<>>,
             full_response |-> <<>>, i |-> 0, room_id |-> None,
             user_db_id |-> None, query |-> <<>>, messages |-> <<>>]
NoRequest == [query |-> <<>>, username |-> NoName, user_db_id |-> None,
              room_id |-> None, timestamp |-> None]
\* history of a request: the request as enqueued, whether it was enqueued
\* behind another one (Active or queued), how often the worker took it on and
\* put it back, how its processing ended, and the current room the registry
\* recorded for the sender when the chat message was handled
NoHistory == [request |-> NoRequest, enqueued |-> FALSE, behind |-> FALSE,
              activations |-> 0, requeues |-> 0, outcome |-> "none",
              sent_in |-> None]
\* no handler of the connection is suspended
NoPending == [handler |-> "none", room_id |-> None]
\* no handler has run yet
NoReply == [sid |-> NoName, handler |-> "none", name |-> NoName, room_id |-> None,
            event |-> "none", message |-> "", to |-> {}, user_count |-> None]

Init ==
    /\ users = [s \in SIDs |-> NoName]
    /\ user_db_ids = [s \in SIDs |-> None]
    /\ user_current_rooms = [s \in SIDs |-> None]
    /\ sio_rooms = {}
    /\ db_users = <<>>
    /\ db_rooms = {[id |-> default_room_id, name |-> "General", created_by |-> None]}
    /\ db_members = {}
    /\ db_messages = <<>>
    /\ clock = 0
    /\ ai_queue = <<>>
    /\ ai_processing = FALSE
    /\ wpc = "get"
    /\ wreq = None
    /\ h = [r \in ReqIds |-> IdleCall]
    /\ trace = [r \in ReqIds |-> <<>>]
    /\ g = [r \in ReqIds |-> NoHistory]
    /\ faults = 0
    /\ out = NoReply
    /\ inbox = [s \in SIDs |-> <<>>]
    /\ pending = [s \in SIDs |-> NoPending]

(* ------------------------- Socket.IO handlers ------------------------- *)
\* what the last handler run emitted: the connection and the handler, its
\* input (a name or a room id), the event, the error message, and the
\* connections the event went to
Reply(sid, handler, name, room_id, event, message, to) ==
    [sid |-> sid, handler |-> handler, name |-> name, room_id |-> room_id,
     event |-> event, message |-> message, to |-> to, user_count |-> None]

\* a variant in which the provider call runs on the event loop and holds it
EventLoopHeldByProvider == \A r \in ReqIds : h[r].prov # "running"

\* the event loop is free to run a handler whenever an event arrives: it is
\* held only within a synchronous section, each of which is one step here,
\* and the provider call is handed to the thread pool (run_in_executor)
EventLoopFree == TRUE

\* sio.emit('error', {'message': message}, room=sid)
Error(sid, handler, name, room_id, message) ==
    out' = Reply(sid, handler, name, room_id, "error", message, {sid})
\* a return that emits nothing
Silent(sid, handler, name, room_id) ==
    out' = Reply(sid, handler, name, room_id, "none", "", {})
\* sio.emit(event, ..., room=...) reaching the connections in `to`
Emit(sid, handler, name, room_id, event, to) ==
    out' = Reply(sid, handler, name, room_id, event, "", to)

\* a presence notice to every connection (no room=), with its 'user_count'
Presence(sid, handler, name, event, to, user_count) ==
    out' = [Reply(sid, handler, name, None, event, "", to) EXCEPT !.user_count = user_count]

\* a variant that counts every connection
ConnectionCount(registry) == Cardinality(DOMAIN registry)

\* len(chat_state.users)
UserCount(registry) == Cardinality({ s \in DOMAIN registry : registry[s] # NoName })

\* 'if not username or not user_db_id' is false
Authenticated(sid) == users[sid] # NoName /\ user_db_ids[sid] # None

\* a variant that never finds the name taken
NameFree(sid, username) == FALSE

\* 'existing_user': another connection is registered with the name
NameTakenByOther(sid, username) ==
    \E s \in SIDs : s # sid /\ users[s] = username

user_join(sid, username) ==
    /\ EventLoopFree
    /\ IF username = NoName
       THEN /\ Error(sid, "user_join", username, None, "Username is required")
            /\ UNCHANGED << presenceVars, db_users, db_members >>
       ELSE IF NameTakenByOther(sid, username)
       THEN /\ Error(sid, "user_join", username, None, "Username already taken")
            /\ UNCHANGED << presenceVars, db_users, db_members >>
       ELSE LET table == get_or_create_user(username)
                user_db_id == CHOOSE i \in 1..Len(table) : table[i] = username
            IN  /\ db_users' = table
                /\ users' = [users EXCEPT ![sid] = username]
                /\ user_db_ids' = [user_db_ids EXCEPT ![sid] = user_db_id]
                /\ user_current_rooms' = [user_current_rooms EXCEPT ![sid] = default_room_id]
                /\ db_members' = add_user_to_room(db_members, user_db_id, default_room_id)
                /\ sio_rooms' = sio_rooms \cup {<<sid, default_room_id>>}
                /\ Presence(sid, "user_join", username, "user_joined", AllConnections,
                            UserCount(users'))
    /\ UNCHANGED << db_rooms, db_messages, coordinatorVars, inbox >>
    /\ UNCHANGED pending

\* ChatState.remove_user, the 'user_left' broadcast when the connection was
\* registered; Socket.IO then drops the connection from its rooms
disconnect(sid) ==
    /\ EventLoopFree
    /\ users' = [users EXCEPT ![sid] = NoName]
    /\ user_db_ids' = [user_db_ids EXCEPT ![sid] = None]
    /\ user_current_rooms' = [user_current_rooms EXCEPT ![sid] = None]
    /\ sio_rooms' = { p \in sio_rooms : p[1] # sid }
    /\ IF users[sid] # NoName
       THEN Presence(sid, "disconnect", NoName, "user_left", AllConnections \ {sid},
                     UserCount(users'))
       ELSE Silent(sid, "disconnect", NoName, None)
    /\ inbox' = [inbox EXCEPT ![sid] = <<>>]
    /\ UNCHANGED << storeVars, coordinatorVars >>
    /\ UNCHANGED pending

\* RoomManager.create_room: the id of the inserted row (SQLite rowid)
NextRoomId == MaxOf({r.id : r \in db_rooms}) + 1

\* a variant that never finds the name in the table
RoomNameUnchecked(room_name) == FALSE

\* RoomManager.create_room: 'existing_room', a room has the name
RoomNameExists(room_name) == \E r \in db_rooms : r.name = room_name

create_room(sid, room_name) ==
    /\ EventLoopFree
    /\ IF ~ Authenticated(sid)
       THEN /\ Error(sid, "create_room", room_name, None, "Not authenticated")
            /\ UNCHANGED << db_rooms, db_members >>
       ELSE IF room_name = NoName
       THEN /\ Error(sid, "create_room", room_name, None, "Room name is required")
            /\ UNCHANGED << db_rooms, db_members >>
       ELSE IF RoomNameExists(room_name)
       THEN /\ Error(sid, "create_room", room_name, None, "Room already exists")
            /\ UNCHANGED << db_rooms, db_members >>
       ELSE /\ db_rooms' = db_rooms \cup
                  {[id |-> NextRoomId, name |-> room_name, created_by |-> user_db_ids[sid]]}
            /\ db_members' = db_members \cup
                  {[room_id |-> NextRoomId, user_id |-> user_db_ids[sid], role |-> "member"]}
            /\ Emit(sid, "create_room", room_name, NextRoomId, "room_created", AllConnections)
    /\ UNCHANGED << presenceVars, db_users, db_messages, coordinatorVars, inbox >>
    /\ UNCHANGED pending

\* a variant that does not look at the member list
RoomManager_join_room_Unchecked(user_id, room_id) ==
    IF RoomById(room_id) = {} THEN "Room not found" ELSE ""

\* RoomManager.join_room: the message of the ValueError it raises ("": none)
RoomManager_join_room(user_id, room_id) ==
    IF RoomById(room_id) = {} THEN "Room not found"
    ELSE IF user_id \notin 1..Len(db_users) THEN "User not found"
    ELSE IF IsMember(user_id, room_id) THEN "User already in room"
    ELSE ""

join_room(sid, room_id) ==
    /\ EventLoopFree
    /\ IF ~ Authenticated(sid)
       THEN /\ Error(sid, "join_room", NoName, room_id, "Not authenticated")
            /\ UNCHANGED << db_members, sio_rooms, user_current_rooms >>
       ELSE IF room_id = None
       THEN /\ Error(sid, "join_room", NoName, room_id, "Room ID is required")
            /\ UNCHANGED << db_members, sio_rooms, user_current_rooms >>
       ELSE IF RoomById(room_id) = {}
       THEN /\ Error(sid, "join_room", NoName, room_id, "Room not found")
            /\ UNCHANGED << db_members, sio_rooms, user_current_rooms >>
       ELSE IF RoomManager_join_room(user_db_ids[sid], room_id) # ""
       THEN /\ Error(sid, "join_room", NoName, room_id,
                     RoomManager_join_room(user_db_ids[sid], room_id))
            /\ UNCHANGED << db_members, sio_rooms, user_current_rooms >>
       ELSE /\ db_members' = db_members \cup
                  {[room_id |-> room_id, user_id |-> user_db_ids[sid], role |-> "member"]}
            /\ sio_rooms' = sio_rooms \cup {<<sid, room_id>>}
            /\ user_current_rooms' = [user_current_rooms EXCEPT ![sid] = room_id]
            /\ Emit(sid, "join_room", NoName, room_id, "room_joined", {sid})
    /\ UNCHANGED << users, user_db_ids, db_users, db_rooms, db_messages, coordinatorVars, inbox >>
    /\ UNCHANGED pending

\* RoomManager.leave_room: the room_members table afterwards
RoomManager_leave_room(user_id, room_id) ==
    IF RoomById(room_id) = {} THEN db_members
    ELSE { m \in db_members : ~ (m.room_id = room_id /\ m.user_id = user_id) }

\* a variant in which no room counts as the default room
NoDefaultRoomId == None

\* DatabaseHelper.get_default_room(db).id
get_default_room_id == (CHOOSE r \in db_rooms : r.name = "General").id

leave_room(sid, room_id) ==
    /\ EventLoopFree
    /\ IF ~ Authenticated(sid) \/ room_id = None
       THEN /\ Silent(sid, "leave_room", NoName, room_id)
            /\ UNCHANGED << db_members, sio_rooms >>
       ELSE IF room_id = get_default_room_id
       THEN /\ Error(sid, "leave_room", NoName, room_id, "Cannot leave default room")
            /\ UNCHANGED << db_members, sio_rooms >>
       ELSE /\ db_members' = RoomManager_leave_room(user_db_ids[sid], room_id)
            /\ sio_rooms' = sio_rooms \ {<<sid, room_id>>}
            /\ Emit(sid, "leave_room", NoName, room_id, "room_left", {sid})
    /\ UNCHANGED << users, user_db_ids, user_current_rooms, db_users, db_rooms,
                    db_messages, coordinatorVars, inbox >>
    /\ UNCHANGED pending

\* RoomManager.is_user_in_room
is_user_in_room(user_id, room_id) ==
    /\ RoomById(room_id) # {}
    /\ user_id \in 1..Len(db_users)
    /\ IsMember(user_id, room_id)

switch_room(sid, room_id) ==
    /\ EventLoopFree
    /\ IF ~ Authenticated(sid)
       THEN /\ Error(sid, "switch_room", NoName, room_id, "Not authenticated")
            /\ UNCHANGED << sio_rooms, user_current_rooms >>
       ELSE IF room_id = None
       THEN /\ Error(sid, "switch_room", NoName, room_id, "Room ID is required")
            /\ UNCHANGED << sio_rooms, user_current_rooms >>
       ELSE IF ~ is_user_in_room(user_db_ids[sid], room_id)
       THEN /\ Error(sid, "switch_room", NoName, room_id, "You are not a member of this room")
            /\ UNCHANGED << sio_rooms, user_current_rooms >>
       ELSE /\ LET old_room_id == user_current_rooms[sid]
                   left == IF old_room_id # None
                           THEN sio_rooms \ {<<sid, old_room_id>>} ELSE sio_rooms
               IN  sio_rooms' = left \cup {<<sid, room_id>>}
            /\ user_current_rooms' = [user_current_rooms EXCEPT ![sid] = room_id]
            /\ Emit(sid, "switch_room", NoName, room_id, "room_switched", {sid})
    /\ UNCHANGED << users, user_db_ids, storeVars, coordinatorVars, inbox >>
    /\ UNCHANGED pending

\* join_room and switch_room when 'await sio.enter_room(...)' suspends: the
\* checks, the membership row and the Socket.IO subscriptions are done, the
\* handler waits, and other handlers run before it goes on
join_room_enter(sid, room_id) ==
    /\ EventLoopFree
    /\ pending[sid] = NoPending
    /\ Authenticated(sid) /\ room_id # None /\ RoomById(room_id) # {}
    /\ RoomManager_join_room(user_db_ids[sid], room_id) = ""
    /\ db_members' = db_members \cup
          {[room_id |-> room_id, user_id |-> user_db_ids[sid], role |-> "member"]}
    /\ sio_rooms' = sio_rooms \cup {<<sid, room_id>>}
    /\ pending' = [pending EXCEPT ![sid] = [handler |-> "join_room", room_id |-> room_id]]
    /\ UNCHANGED << users, user_db_ids, user_current_rooms, db_users, db_rooms,
                    db_messages, coordinatorVars, inbox, out >>

switch_room_enter(sid, room_id) ==
    /\ EventLoopFree
    /\ pending[sid] = NoPending
    /\ Authenticated(sid) /\ room_id # None
    /\ is_user_in_room(user_db_ids[sid], room_id)
    /\ LET old_room_id == user_current_rooms[sid]
           left == IF old_room_id # None
                   THEN sio_rooms \ {<<sid, old_room_id>>} ELSE sio_rooms
       IN  sio_rooms' = left \cup {<<sid, room_id>>}
    /\ pending' = [pending EXCEPT ![sid] = [handler |-> "switch_room", room_id |-> room_id]]
    /\ UNCHANGED << users, user_db_ids, user_current_rooms, storeVars,
                    coordinatorVars, inbox, out >>

\* ChatState.set_user_room
set_user_room(sid, room_id) == [user_current_rooms EXCEPT ![sid] = room_id]

\* the suspended handler goes on: set_user_room and the reply to the
\* connection; username and user_db_id are the handler's local copies
handler_resume(sid) ==
    /\ EventLoopFree
    /\ pending[sid] # NoPending
    /\ user_current_rooms' = set_user_room(sid, pending[sid].room_id)
    /\ Emit(sid, pending[sid].handler, NoName, pending[sid].room_id,
            IF pending[sid].handler = "join_room" THEN "room_joined" ELSE "room_switched",
            {sid})
    /\ pending' = [pending EXCEPT ![sid] = NoPending]
    /\ UNCHANGED << users, user_db_ids, sio_rooms, storeVars, coordinatorVars, inbox >>

\* a variant that lets any identity delete a room
RoomManager_delete_room_AnyUser(room_id, user_id) ==
    IF RoomById(room_id) = {} THEN "Room not found"
    ELSE IF (CHOOSE r \in RoomById(room_id) : TRUE).name = "General"
    THEN "Cannot delete default room"
    ELSE ""

\* RoomManager.delete_room: the message of the ValueError it raises ("": none)
RoomManager_delete_room(room_id, user_id) ==
    IF RoomById(room_id) = {} THEN "Room not found"
    ELSE LET room == CHOOSE r \in RoomById(room_id) : TRUE
         IN  IF room.created_by # user_id THEN "Only room creator can delete the room"
             ELSE IF room.name = "General" THEN "Cannot delete default room"
             ELSE ""

\* a variant of the delete that leaves the room's messages in place
CascadeMessagesKeep(messages, room_id) == messages

\* db.delete(room): the messages relationship cascades (all, delete-orphan)
CascadeMessages(messages, room_id) ==
    LET kept(m) == m.room_id # room_id
    IN  SelectSeq(messages, kept)

\* db.delete(room): the rows of the secondary table go with the room
CascadeMembers(members, room_id) == { m \in members : m.room_id # room_id }

delete_room(sid, room_id) ==
    /\ EventLoopFree
    /\ IF ~ Authenticated(sid)
       THEN /\ Error(sid, "delete_room", NoName, room_id, "Not authenticated")
            /\ UNCHANGED << db_rooms, db_members, db_messages >>
       ELSE IF room_id = None
       THEN /\ Error(sid, "delete_room", NoName, room_id, "Room ID is required")
            /\ UNCHANGED << db_rooms, db_members, db_messages >>
       ELSE IF RoomManager_delete_room(room_id, user_db_ids[sid]) # ""
       THEN /\ Error(sid, "delete_room", NoName, room_id,
                     RoomManager_delete_room(room_id, user_db_ids[sid]))
            /\ UNCHANGED << db_rooms, db_members, db_messages >>
       ELSE /\ db_rooms' = db_rooms \ RoomById(room_id)
            /\ db_messages' = CascadeMessages(db_messages, room_id)
            /\ db_members' = CascadeMembers(db_members, room_id)
            /\ Emit(sid, "delete_room", NoName, room_id, "room_deleted", AllConnections)
    /\ UNCHANGED << presenceVars, db_users, coordinatorVars, inbox >>
    /\ UNCHANGED pending

\* a variant of the transport that hands a later event over first
DeliverFirst(feed, message) == <<message>> \o feed

\* the transport hands the events emitted to a connection over in the order
\* of the emits
Deliver(feed, message) == Append(feed, message)

\* sio.emit('chat_message', message_dict, room=f"room_{room_id}")
Broadcast(room_id, message) ==
    [s \in SIDs |-> IF s \in RoomSubscribers(room_id)
                    THEN Deliver(inbox[s], message) ELSE inbox[s]]

\* ChatState.get_user_room(sid) or default_room_id
CurrentRoomOrDefault(sid) ==
    IF user_current_rooms[sid] # None THEN user_current_rooms[sid] ELSE default_room_id

chat_message(sid, content) ==
    /\ EventLoopFree
    /\ clock < MaxChat
    /\ IF users[sid] = NoName
       THEN /\ Error(sid, "chat_message", NoName, None, "Not authenticated")
            /\ UNCHANGED << clock, db_messages, ai_queue, g, inbox >>
       ELSE IF content = <<>>
       THEN /\ Silent(sid, "chat_message", NoName, None)
            /\ UNCHANGED << clock, db_messages, ai_queue, g, inbox >>
       ELSE LET timestamp == clock + 1
                user_db_id == user_db_ids[sid]
                current_room_id == CurrentRoomOrDefault(sid)
            IN  /\ clock' = timestamp
                /\ db_messages' = add_message(current_room_id, user_db_id, content,
                                              FALSE, None, None)
                /\ Emit(sid, "chat_message", NoName, current_room_id, "chat_message",
                        RoomSubscribers(current_room_id))
                /\ inbox' = Broadcast(current_room_id,
                                      [timestamp |-> timestamp, room_id |-> current_room_id])
                /\ IF detect_ai_mention(content)
                   THEN LET request == [query |-> extract_ai_query(content),
                                        username |-> users[sid],
                                        user_db_id |-> user_db_id,
                                        room_id |-> current_room_id,
                                        timestamp |-> timestamp]
                        IN  /\ ai_queue' = QueuePut(ai_queue, request)
                            /\ g' = [g EXCEPT ![timestamp].request = request,
                                              ![timestamp].enqueued = TRUE,
                                              ![timestamp].behind =
                                                  ai_processing \/ ai_queue # <<>>,
                                              ![timestamp].sent_in = user_current_rooms[sid]]
                   ELSE UNCHANGED << ai_queue, g >>
    /\ UNCHANGED << presenceVars, db_users, db_rooms, db_members, workerVars, faults >>
    /\ UNCHANGED pending

(* ---------------------- handle_ai_request (one call) ------------------ *)
\* an emitted AI event of request r: its type, the chunk it carries, and the
\* receivers that are not subscribed to the request's room when it is emitted
Event(r, type, to, chunk) ==
    [type |-> type, chunk |-> chunk, outside |-> to \ RoomSubscribers(h[r].room_id)]

\* 'ai_response_start' / '_chunk' / '_end': sio.emit(..., room=f"room_{room_id}")
RoomEvent(r, type, room_id, chunk) == Event(r, type, RoomSubscribers(room_id), chunk)

\* 'ai_error': sio.emit('ai_error', {...}) carries no room argument
ErrorEvent(r) == Event(r, "failed", AllConnections, <<>>)

\* the request is Active: a handle_ai_request call for it is running
Active(r) == h[r].pc \in {"begin", "await", "sleep", "persist"}

\* whether a store or transport call succeeds, after `used` failures in this
\* step: it may raise while the run's failures are not used up
Succeeds(used) == IF faults + used < MaxFaults THEN BOOLEAN ELSE {TRUE}

\* a variant of the except clause that saves what was accumulated so far
InnerExceptSavesPartial(r, hr, used) ==
    /\ \E emitted \in Succeeds(used) :
          /\ trace' = [trace EXCEPT ![r] = IF emitted THEN Append(@, ErrorEvent(r)) ELSE @]
          /\ h' = [h EXCEPT ![r] = [hr EXCEPT !.pc = IF emitted THEN "returned" ELSE "raised"]]
          /\ faults' = faults + used + (IF emitted THEN 0 ELSE 1)
    /\ g' = [g EXCEPT ![r].outcome = "failed"]
    /\ db_messages' = add_message(hr.room_id, None, hr.full_response, TRUE,
                                  hr.user_db_id, r)

\* the except clause of handle_ai_request, entered with call state hr after
\* `used` failures in this step; the error emit goes out or raises out of the call
InnerExcept(r, hr, used) ==
    /\ \E emitted \in Succeeds(used) :
          /\ trace' = [trace EXCEPT ![r] = IF emitted THEN Append(@, ErrorEvent(r)) ELSE @]
          /\ h' = [h EXCEPT ![r] = [hr EXCEPT !.pc = IF emitted THEN "returned" ELSE "raised"]]
          /\ faults' = faults + used + (IF emitted THEN 0 ELSE 1)
    /\ g' = [g EXCEPT ![r].outcome = "failed"]
    /\ UNCHANGED db_messages

\* max_messages of the context
context_limit == 10
\* the first turn of every prompt
SystemTurn ==
    [role |-> "system",
     content |-> <<"You are a helpful AI assistant in a group chat. Provide concise and friendly responses.">>]

\* context building and the start emit; then the provider call is handed to
\* the thread pool.  A failure here is outside the try block: it leaves the call.
HBegin(r) ==
    /\ h[r].pc = "begin"
    /\ \E context_built \in Succeeds(0), emitted \in Succeeds(0) :
          IF context_built /\ emitted
          THEN /\ trace' = [trace EXCEPT ![r] = Append(@, RoomEvent(r, "start", h[r].room_id, <<>>))]
               /\ h' = [h EXCEPT ![r].pc = "await", ![r].prov = "running",
                                  ![r].messages =
                                      <<SystemTurn>>
                                      \o get_context_for_ai(h[r].room_id, context_limit)
                                      \o <<[role |-> "user", content |-> h[r].query]>>]
               /\ UNCHANGED << g, faults >>
          ELSE /\ h' = [h EXCEPT ![r].pc = "raised"]
               /\ g' = [g EXCEPT ![r].outcome = "failed"]
               /\ faults' = faults + 1
               /\ UNCHANGED trace
    /\ UNCHANGED << out, inbox, presenceVars, storeVars, clock, ai_queue, ai_processing, wpc, wreq >>
    /\ UNCHANGED pending

\* sync_stream in the thread pool: chat_completion_stream yields one fragment
ProviderYield(r) ==
    /\ h[r].prov = "running"
    /\ Len(h[r].chunks) < MaxChunks
    /\ h' = [h EXCEPT ![r].chunks = Append(@, Fragment(Len(@) + 1))]
    /\ UNCHANGED << out, inbox, presenceVars, storeVars, clock, ai_queue, ai_processing,
                    wpc, wreq, trace, g, faults >>
    /\ UNCHANGED pending

\* sync_stream: the generator is exhausted, the list is returned; the call
\* that held the prompt is over
ProviderReturn(r) ==
    /\ h[r].prov = "running"
    /\ h' = [h EXCEPT ![r].prov = "returned", ![r].messages = <<>>]
    /\ UNCHANGED << out, inbox, presenceVars, storeVars, clock, ai_queue, ai_processing,
                    wpc, wreq, trace, g, faults >>
    /\ UNCHANGED pending

\* sync_stream: the provider raises (at the start or mid-stream); the list is lost
ProviderRaise(r) ==
    /\ h[r].prov = "running"
    /\ h' = [h EXCEPT ![r].prov = "raised", ![r].chunks = <<>>, ![r].messages = <<>>]
    /\ UNCHANGED << out, inbox, presenceVars, storeVars, clock, ai_queue, ai_processing,
                    wpc, wreq, trace, g, faults >>
    /\ UNCHANGED pending

\* a variant that assigns instead of appending
AccumulateAssign(full_response, chunk) == chunk

\* 'full_response += chunk'
Accumulate(full_response, chunk) == full_response \o chunk

\* the head of 'for chunk in chunks' with index i: the next chunk is
\* accumulated and emitted, or the loop is over and the end event is emitted
LoopHead(r, i) ==
    LET hr == h[r]
    IN  \E emitted \in Succeeds(0) :
          IF i <= Len(hr.chunks)
          THEN LET acc == [hr EXCEPT !.full_response = Accumulate(@, hr.chunks[i]), !.i = i + 1]
               IN  IF emitted
                   THEN /\ trace' = [trace EXCEPT ![r] =
                               Append(@, RoomEvent(r, "chunk", hr.room_id, hr.chunks[i]))]
                        /\ h' = [h EXCEPT ![r] = [acc EXCEPT !.pc = "sleep"]]
                        /\ UNCHANGED << g, db_messages, faults >>
                   ELSE InnerExcept(r, acc, 1)
          ELSE IF emitted
               THEN /\ trace' = [trace EXCEPT ![r] = Append(@, RoomEvent(r, "end", hr.room_id, <<>>))]
                    /\ h' = [h EXCEPT ![r].pc = "persist"]
                    /\ UNCHANGED << g, db_messages, faults >>
               ELSE InnerExcept(r, hr, 1)

\* run_in_executor has finished: its exception enters the except clause,
\* its result starts the chunk loop
\* a variant in which sync_stream swallows the provider's exception
ExecutorNeverRaises(r) == FALSE

\* 'await loop.run_in_executor(executor, sync_stream)' re-raises what
\* sync_stream raised
ExecutorRaises(r) == h[r].prov = "raised"

HAfterExecutor(r) ==
    /\ h[r].pc = "await"
    /\ h[r].prov \in {"returned", "raised"}
    /\ IF ExecutorRaises(r)
       THEN InnerExcept(r, h[r], 0)
       ELSE LoopHead(r, 1)
    /\ UNCHANGED << out, inbox, presenceVars, db_users, db_rooms, db_members, clock, ai_queue,
                    ai_processing, wpc, wreq >>
    /\ UNCHANGED pending

\* asyncio.sleep(0.01) after a chunk is over
HAfterSleep(r) ==
    /\ h[r].pc = "sleep"
    /\ LoopHead(r, h[r].i)
    /\ UNCHANGED << out, inbox, presenceVars, db_users, db_rooms, db_members, clock, ai_queue,
                    ai_processing, wpc, wreq >>
    /\ UNCHANGED pending

\* the AI message is saved, or saving raises into the except clause
HPersist(r) ==
    /\ h[r].pc = "persist"
    /\ \E saved \in Succeeds(0) :
          IF saved
          THEN /\ db_messages' = add_message(h[r].room_id, None, h[r].full_response,
                                             TRUE, h[r].user_db_id, r)
               /\ h' = [h EXCEPT ![r].pc = "returned"]
               /\ g' = [g EXCEPT ![r].outcome = "completed"]
               /\ UNCHANGED << trace, faults >>
          ELSE InnerExcept(r, h[r], 1)
    /\ UNCHANGED << out, inbox, presenceVars, db_users, db_rooms, db_members, clock, ai_queue,
                    ai_processing, wpc, wreq >>
    /\ UNCHANGED pending

(* -------------------------- process_ai_queue -------------------------- *)
\* 'if chat_state.ai_processing': the busy test after a dequeue
Busy == ai_processing

\* a variant that does not wait for the call (the call left running as a task)
HandlerFinishedNoAwait(r) == TRUE

\* 'await handle_ai_request(request)': the worker goes on when the call is over
HandlerFinished(r) == h[r].pc \in {"returned", "raised"}

\* a variant that clears the flag on the normal path only
FinallyOnSuccessOnly(exc) ==
    /\ ai_processing' = (IF exc THEN ai_processing ELSE FALSE)
    /\ wpc' = IF exc THEN "sleep1" ELSE "get"

\* the finally clause; exc: an exception is still propagating, which the
\* outermost except clause catches (and sleeps one second)
Finally(exc) ==
    /\ ai_processing' = FALSE
    /\ wpc' = IF exc THEN "sleep1" ELSE "get"

\* a variant that targets the room the requester is in when the request is
\* taken on
RequesterCurrentRoom(request) ==
    LET sid == CHOOSE s \in SIDs : users[s] = request.username
    IN  user_current_rooms[sid]

\* 'room_id = request['room_id']': the room the events of the call go to
RequestRoom(request) == request.room_id

\* one pass from queue.get() to the call of handle_ai_request, or the busy
\* branch: the 'ai_busy' notice, the request put back, sleep(2), continue
\* a variant that looks the requester up in the registry
RegisteredUser(request) ==
    IF \E s \in SIDs : users[s] = request.username
    THEN user_db_ids[CHOOSE s \in SIDs : users[s] = request.username]
    ELSE None

\* user_db_id = request['user_db_id']
RequestUser(request) == request.user_db_id

WorkerTake ==
    /\ wpc = "get"
    /\ ai_queue # <<>>
    /\ LET request == QueueFront(ai_queue)
           r == request.timestamp
       IN  IF Busy
           THEN /\ \E emitted \in Succeeds(0) :
                      IF emitted
                      THEN /\ ai_queue' = QueuePut(QueueRest(ai_queue), request)
                           /\ g' = [g EXCEPT ![r].requeues = @ + 1]
                           /\ wpc' = "get"
                           /\ faults' = faults
                      ELSE /\ ai_queue' = QueueRest(ai_queue)
                           /\ g' = g
                           /\ wpc' = "sleep1"
                           /\ faults' = faults + 1
                /\ UNCHANGED << ai_processing, wreq, h >>
           ELSE /\ ai_queue' = QueueRest(ai_queue)
                /\ ai_processing' = TRUE
                /\ wpc' = "handle"
                /\ wreq' = r
                /\ h' = [h EXCEPT ![r] = [IdleCall EXCEPT !.pc = "begin",
                                            !.room_id = RequestRoom(request),
                                            !.query = request.query,
                                            !.user_db_id = RequestUser(request)]]
                /\ g' = [g EXCEPT ![r].activations = @ + 1]
                /\ faults' = faults
    /\ UNCHANGED << out, inbox, presenceVars, storeVars, clock, trace >>
    /\ UNCHANGED pending

\* handle_ai_request is over: a normal return runs the finally clause; an
\* exception runs 'except Exception' first, whose 'ai_error' emit may raise
WorkerHandled ==
    /\ wpc = "handle"
    /\ HandlerFinished(wreq)
    /\ IF h[wreq].pc = "raised"
       THEN /\ \E emitted \in Succeeds(0) :
                  /\ trace' = [trace EXCEPT ![wreq] =
                                  IF emitted THEN Append(@, ErrorEvent(wreq)) ELSE @]
                  /\ wpc' = IF emitted THEN "finally" ELSE "finally_exc"
                  /\ faults' = faults + (IF emitted THEN 0 ELSE 1)
            /\ UNCHANGED ai_processing
       ELSE /\ Finally(FALSE)
            /\ UNCHANGED << trace, faults >>
    /\ UNCHANGED << out, inbox, presenceVars, storeVars, clock, ai_queue, wreq, h, g >>
    /\ UNCHANGED pending

\* the finally clause after the except clause's emit
WorkerFinally ==
    /\ wpc \in {"finally", "finally_exc"}
    /\ Finally(wpc = "finally_exc")
    /\ UNCHANGED << out, inbox, presenceVars, storeVars, clock, ai_queue, wreq, h, trace, g, faults >>
    /\ UNCHANGED pending

\* a variant in which the outermost except clause leaves the loop
WorkerSleep1Stops ==
    /\ wpc = "sleep1"
    /\ wpc' = "stopped"
    /\ UNCHANGED << out, inbox, presenceVars, storeVars, clock, ai_queue, ai_processing,
                    wreq, h, trace, g, faults >>
    /\ UNCHANGED pending

\* the outermost except clause: asyncio.sleep(1), then the loop continues
WorkerSleep1 ==
    /\ wpc = "sleep1"
    /\ wpc' = "get"
    /\ UNCHANGED << out, inbox, presenceVars, storeVars, clock, ai_queue, ai_processing,
                    wreq, h, trace, g, faults >>
    /\ UNCHANGED pending

(* --------------------------- specification ---------------------------- *)
HandlerNext ==
    \E r \in ReqIds :
        \/ HBegin(r)
        \/ HAfterExecutor(r)
        \/ HAfterSleep(r)
        \/ HPersist(r)

ProviderNext ==
    \E r \in ReqIds :
        \/ ProviderYield(r)
        \/ ProviderReturn(r)
        \/ ProviderRaise(r)

WorkerNext ==
    \/ WorkerTake
    \/ WorkerHandled
    \/ WorkerFinally
    \/ WorkerSleep1

\* the clients of the coordinator: a connection registers once, under its own
\* name, creates rooms, and moves on to a room created later (it does not
\* return); it sends no request that the handlers reject
ClientNext ==
    \E sid \in Chatters :
        \/ users[sid] = NoName /\ user_join(sid, NameOf[sid])
        \/ \E room_name \in RoomNames :
              /\ Authenticated(sid)
              /\ ~ \E r \in db_rooms : r.name = room_name
              /\ create_room(sid, room_name)
        \/ \E room_id \in 1..Cardinality(RoomNames) :
              /\ user_current_rooms[sid] < room_id
              /\ Authenticated(sid) /\ is_user_in_room(user_db_ids[sid], room_id)
              /\ switch_room(sid, room_id)
        \/ \E content \in Texts : users[sid] # NoName /\ chat_message(sid, content)

Next == ClientNext \/ WorkerNext \/ HandlerNext \/ ProviderNext

Spec == Init /\ [][Next]_vars

\* the event loop keeps scheduling the worker task and the running call, and
\* every provider call in the thread pool returns or raises in the end
ProviderEnds == \E r \in ReqIds : ProviderReturn(r) \/ ProviderRaise(r)

\* the coordinator with the clients that register and chat in the default room
ChatNext ==
    \E sid \in Chatters :
        \/ users[sid] = NoName /\ user_join(sid, NameOf[sid])
        \/ \E content \in Texts : users[sid] # NoName /\ chat_message(sid, content)

FairNext == ChatNext \/ WorkerNext \/ HandlerNext \/ ProviderNext

FairSpec ==
    /\ Init /\ [][FairNext]_vars
    /\ WF_vars(WorkerNext)
    /\ WF_vars(HandlerNext)
    /\ WF_vars(ProviderEnds)

\* the presence registry and the subscription index on their own: every
\* connection registers under any name, disconnects, and creates, joins,
\* leaves and switches rooms, with any input, accepted or rejected
RoomIds == 0..Cardinality(RoomNames)

PresenceNext ==
    \E sid \in SIDs :
        \/ \E username \in Names \cup {NoName} : user_join(sid, username)
        \/ disconnect(sid)
        \/ \E room_name \in RoomNames : create_room(sid, room_name)
        \/ \E room_id \in RoomIds : join_room(sid, room_id)
        \/ \E room_id \in RoomIds : leave_room(sid, room_id)
        \/ \E room_id \in RoomIds : switch_room(sid, room_id)

PresenceSpec == Init /\ [][PresenceNext]_vars

\* the room service on its own: every connection registers once, under its
\* own name, and creates, joins, leaves and deletes rooms and chats, with any
\* input, accepted or rejected; the texts carry no mention, so the
\* coordinator stays idle
PlainTexts == { t \in Texts : ~ detect_ai_mention(t) }

RoomNext ==
    \E sid \in SIDs :
        \/ users[sid] = NoName /\ user_join(sid, NameOf[sid])
        \/ \E room_name \in RoomNames \cup {NoName} : create_room(sid, room_name)
        \/ \E room_id \in RoomIds : join_room(sid, room_id)
        \/ \E room_id \in RoomIds : leave_room(sid, room_id)
        \/ \E room_id \in RoomIds : delete_room(sid, room_id)
        \/ \E content \in PlainTexts : sid \in Chatters /\ chat_message(sid, content)

RoomSpec == Init /\ [][RoomNext]_vars

\* the coordinator with two registered connections: the first one creates
\* rooms, moves on and sends a mention when the coordinator is idle, the
\* second one stays in the default room
MentionTexts == { t \in Texts : detect_ai_mention(t) }

RelayNext ==
    \/ \E sid \in SIDs : users[sid] = NoName /\ user_join(sid, NameOf[sid])
    \/ \E sid \in Chatters :
          \/ \E room_name \in RoomNames :
                /\ Authenticated(sid)
                /\ ~ \E r \in db_rooms : r.name = room_name
                /\ create_room(sid, room_name)
          \/ \E room_id \in 1..Cardinality(RoomNames) :
                /\ user_current_rooms[sid] < room_id
                /\ Authenticated(sid) /\ is_user_in_room(user_db_ids[sid], room_id)
                /\ switch_room(sid, room_id)
          \/ \E content \in MentionTexts :
                /\ users[sid] # NoName
                /\ ai_queue = <<>> /\ ~ ai_processing
                /\ chat_message(sid, content)
    \/ WorkerNext
    \/ HandlerNext
    \/ ProviderNext

RelaySpec == Init /\ [][RelayNext]_vars

\* the chat traffic on its own: both connections register once, create, join
\* and switch rooms and send texts without a mention, in any interleaving
FeedNext ==
    \E sid \in SIDs :
        \/ users[sid] = NoName /\ user_join(sid, NameOf[sid])
        \/ \E room_name \in RoomNames : create_room(sid, room_name)
        \/ \E room_id \in RoomIds : join_room(sid, room_id)
        \/ \E room_id \in RoomIds : switch_room(sid, room_id)
        \/ \E content \in PlainTexts : chat_message(sid, content)

FeedSpec == Init /\ [][FeedNext]_vars

\* the mention pattern on its own: a registered connection sends one text,
\* any stripped non-empty text over a small alphabet
Chars == {"@", "a", "I", " ", "x"}
StrippedTexts ==
    { t \in UNION { [1..k -> Chars] : k \in 1..MaxLen } :
        ~ IsSpace(t[1]) /\ ~ IsSpace(t[Len(t)]) }

MentionNext ==
    \E sid \in Chatters :
        \/ users[sid] = NoName /\ user_join(sid, NameOf[sid])
        \/ /\ users[sid] # NoName /\ db_messages = <<>>
           /\ \E content \in StrippedTexts : chat_message(sid, content)

MentionSpec == Init /\ [][MentionNext]_vars

\* the prompt of a request when the store holds messages of earlier runs of
\* the server: users alice and bob, both members of General and of dev; the
\* k-th message is in room rooms[k], an AI response if k is in ai, else a
\* message of alice or bob; its text is its number
HistoryMessage(k, room_id, is_ai) ==
    [room_id |-> room_id, user_id |-> IF is_ai THEN None ELSE 1 + (k % 2),
     content |-> <<ToString(k)>>, is_ai |-> is_ai,
     triggered_by |-> IF is_ai THEN 1 + (k % 2) ELSE None, req |-> None]

PromptInit ==
    /\ users = [s \in SIDs |-> NoName]
    /\ user_db_ids = [s \in SIDs |-> None]
    /\ user_current_rooms = [s \in SIDs |-> None]
    /\ sio_rooms = {}
    /\ db_users = <<"alice", "bob">>
    /\ db_rooms = {[id |-> default_room_id, name |-> "General", created_by |-> None],
                   [id |-> 2, name |-> "dev", created_by |-> 1]}
    /\ db_members = [room_id : {default_room_id, 2}, user_id : {1, 2}, role : {"member"}]
    /\ \E rooms \in [1..MaxHistory -> {default_room_id, 2}] :
       \E ai \in { S \in SUBSET (1..MaxHistory) : Cardinality(S) <= 1 } :
          db_messages = [k \in 1..MaxHistory |-> HistoryMessage(k, rooms[k], k \in ai)]
    /\ clock = 0
    /\ ai_queue = <<>>
    /\ ai_processing = FALSE
    /\ wpc = "get"
    /\ wreq = None
    /\ h = [r \in ReqIds |-> IdleCall]
    /\ trace = [r \in ReqIds |-> <<>>]
    /\ g = [r \in ReqIds |-> NoHistory]
    /\ faults = 0
    /\ out = NoReply
    /\ inbox = [s \in SIDs |-> <<>>]
    /\ pending = [s \in SIDs |-> NoPending]

PromptNext ==
    \/ \E sid \in Chatters :
          \/ users[sid] = NoName /\ user_join(sid, NameOf[sid])
          \/ \E room_id \in RoomIds :
                /\ user_current_rooms[sid] < room_id /\ ai_queue = <<>> /\ ~ ai_processing
                /\ Authenticated(sid) /\ switch_room(sid, room_id)
          \/ \E content \in MentionTexts :
                /\ users[sid] # NoName
                /\ ai_queue = <<>> /\ ~ ai_processing
                /\ chat_message(sid, content)
    \/ WorkerTake
    \/ \E r \in ReqIds : HBegin(r)

PromptSpec == PromptInit /\ [][PromptNext]_vars

\* the coordinator when the requester goes away: both connections register
\* once, the first one sends one mention and disconnects while its request
\* is queued or Active; the second one stays and listens
DropNext ==
    \/ \E sid \in SIDs :
          /\ users[sid] = NoName
          /\ ~ \E i \in 1..Len(db_users) : db_users[i] = NameOf[sid]
          /\ user_join(sid, NameOf[sid])
    \/ \E sid \in Chatters :
          \/ \E content \in MentionTexts :
                /\ users[sid] # NoName /\ db_messages = <<>>
                /\ chat_message(sid, content)
          \/ /\ users[sid] # NoName
             /\ \E r \in ReqIds :
                   \/ Active(r)
                   \/ \E k \in 1..Len(ai_queue) : ai_queue[k].timestamp = r
             /\ disconnect(sid)
    \/ WorkerNext
    \/ HandlerNext
    \/ ProviderNext

DropSpec ==
    /\ Init /\ [][DropNext]_vars
    /\ WF_vars(WorkerNext)
    /\ WF_vars(HandlerNext)
    /\ WF_vars(ProviderEnds)

\* events during a generation: the first connection registers and sends a
\* mention; while the provider call of that first request is running, the
\* second connection registers, the first one creates a room, moves to it
\* and sends messages
InFlight(r) == h[r].pc = "await" /\ h[r].prov = "running"

FlightNext ==
    \/ \E sid \in Chatters :
          \/ users[sid] = NoName /\ user_join(sid, NameOf[sid])
          \/ \E content \in MentionTexts :
                users[sid] # NoName /\ db_messages = <<>> /\ chat_message(sid, content)
    \/ /\ \E r \in ReqIds : InFlight(r)
       /\ \A r \in ReqIds : g[r].outcome = "none"
       /\ \E sid \in SIDs :
             \/ users[sid] = NoName /\ user_join(sid, NameOf[sid])
             \/ \E room_name \in RoomNames :
                   /\ sid \in Chatters
                   /\ ~ \E r \in db_rooms : r.name = room_name
                   /\ create_room(sid, room_name)
             \/ \E room_id \in RoomIds :
                   /\ sid \in Chatters /\ user_current_rooms[sid] < room_id
                   /\ is_user_in_room(user_db_ids[sid], room_id)
                   /\ switch_room(sid, room_id)
             \/ \E content \in Texts :
                   sid \in Chatters /\ chat_message(sid, content)
    \/ WorkerNext
    \/ HandlerNext
    \/ ProviderNext

FlightSpec == Init /\ [][FlightNext]_vars

\* the registry when join_room and switch_room may be suspended at their
\* await before set_user_room: connections register under their own names,
\* create, join and switch rooms, and disconnect at any point
AwaitNext ==
    \E sid \in SIDs :
        \/ users[sid] = NoName /\ user_join(sid, NameOf[sid])
        \/ disconnect(sid)
        \/ \E room_name \in RoomNames : Authenticated(sid) /\ create_room(sid, room_name)
        \/ \E room_id \in RoomIds : join_room(sid, room_id)
        \/ \E room_id \in RoomIds : switch_room(sid, room_id)
        \/ \E room_id \in RoomIds : join_room_enter(sid, room_id)
        \/ \E room_id \in RoomIds : switch_room_enter(sid, room_id)
        \/ handler_resume(sid)

AwaitSpec == Init /\ [][AwaitNext]_vars

\* mid-stream failures: the coordinator with a provider that raises only
\* after it has yielded at least one fragment
StreamNext ==
    \/ ChatNext
    \/ WorkerNext
    \/ HandlerNext
    \/ \E r \in ReqIds :
          \/ ProviderYield(r)
          \/ ProviderReturn(r)
          \/ h[r].chunks # <<>> /\ ProviderRaise(r)

StreamSpec == Init /\ [][StreamNext]_vars

\* valid and invalid input: names and room names that are empty after
\* strip(), chat texts as received, stripped by the handler
RawTexts == { <<>>, <<" ">>, <<"x">>, <<" ", "x", " ">>, <<"@", "a", "i">> }

InputNext ==
    \E sid \in SIDs :
        \/ \E username \in Names \cup {NoName} : user_join(sid, username)
        \/ \E room_name \in RoomNames \cup {NoName} : create_room(sid, room_name)
        \/ \E raw \in RawTexts : chat_message(sid, Strip(raw))

InputSpec == Init /\ [][InputNext]_vars

(* ------------------------------ properties ---------------------------- *)
InQueue(r) == \E k \in 1..Len(ai_queue) : ai_queue[k].timestamp = r
Terminal(r) == g[r].outcome \in {"completed", "failed"}
NumChunkEvents(r) == Cardinality({k \in 1..Len(trace[r]) : trace[r][k].type = "chunk"})
\* the chunks of the events in tr, concatenated in the order of emission
RECURSIVE ConcatChunks(_)
ConcatChunks(tr) ==
    IF tr = <<>> THEN <<>> ELSE Head(tr).chunk \o ConcatChunks(Tail(tr))
\* the positions in the messages table of the AI messages saved for request r
MessagesOf(r) == {k \in 1..Len(db_messages) : db_messages[k].req = r}

\* C1: in every reachable state at most one AI request is Active (a
\* handle_ai_request call is running for it), however chat_message handlers
\* that enqueue requests interleave with the worker loop.
C1_AtMostOneActive == Cardinality({r \in ReqIds : Active(r)}) <= 1

\* C1 witness: one request is Active while another one waits in the queue.
C1_Witness == \E r1, r2 \in ReqIds : r1 # r2 /\ Active(r1) /\ InQueue(r2)

\* C2: a request that was enqueued behind another one (another request was
\* Active or queued at that moment) has passed through at least one
\* busy-requeue cycle (put back, 'ai_busy' broadcast) once it is Active.
C2_SecondRequestIsRequeued ==
    \A r \in ReqIds :
        (g[r].behind /\ g[r].activations > 0) => g[r].requeues >= 1

\* C3: the events emitted for a request are start, then chunks, then end, or
\* start then failed: only the first event is a start, and nothing follows an
\* end or a failed event.
C3_EventOrder ==
    \A r \in ReqIds :
        \A k \in 1..Len(trace[r]) :
            /\ (trace[r][k].type = "start") <=> (k = 1)
            /\ trace[r][k].type \in {"end", "failed"} => k = Len(trace[r])

\* C4: every fragment the provider has produced is forwarded as a chunk event
\* before the provider produces the next one: while a request is being served
\* without failure, at most one produced fragment is not yet emitted.
C4_ChunkForwardedOnReceipt ==
    \A r \in ReqIds :
        (Active(r) /\ g[r].outcome # "failed") =>
            Len(h[r].chunks) - NumChunkEvents(r) <= 1

\* C5: a 'response failed' event is room-scoped: no connection outside the
\* request's target room receives it.
C5_FailedEventRoomScoped ==
    \A r \in ReqIds :
        \A k \in 1..Len(trace[r]) :
            trace[r][k].type = "failed" => trace[r][k].outside = {}

\* C6: at most one AI message is saved per request, and exactly one when the
\* call returned without any failure; it is saved after the end event, is
\* flagged is_ai with no author, lies in the request's room, names the
\* requester as triggered_by, and its content is the concatenation, in order,
\* of the chunks emitted for the request.
C6_CompletedPersistsOnce ==
    \A r \in ReqIds :
        /\ Cardinality(MessagesOf(r)) <= 1
        /\ (h[r].pc = "returned" /\ g[r].outcome # "failed")
              => Cardinality(MessagesOf(r)) = 1
        /\ \A k \in MessagesOf(r) :
              /\ db_messages[k].is_ai
              /\ db_messages[k].user_id = None
              /\ db_messages[k].room_id = g[r].request.room_id
              /\ db_messages[k].triggered_by = g[r].request.user_db_id
              /\ db_messages[k].content = ConcatChunks(trace[r])
              /\ trace[r] # <<>> /\ trace[r][Len(trace[r])].type = "end"

\* C6 witness: a request completed whose saved content is made of two chunks.
C6_Witness ==
    \E r \in ReqIds :
        /\ g[r].outcome = "completed"
        /\ NumChunkEvents(r) = 2
        /\ \E k \in MessagesOf(r) : Len(db_messages[k].content) = 2

C8_LoopSurvivesFailure ==
    /\ wpc \in {"get", "handle", "finally", "finally_exc", "sleep1"}
    /\ wpc \in {"get", "sleep1"} => ~ ai_processing

\* C8 witness: a request failed without any event reaching a client (also the
\* error emit raised), and a later request is Active.
C8_Witness ==
    \E r1, r2 \in ReqIds :
        /\ g[r1].outcome = "failed" /\ h[r1].pc = "raised" /\ trace[r1] = <<>>
        /\ r1 # r2 /\ Active(r2)

\* C9: under fairness of the worker loop and of the running call, and with
\* every provider call returning or raising in the end, every enqueued
\* request is taken on and reaches Completed or Failed.
C9_EveryRequestServed ==
    \A r \in ReqIds :
        g[r].enqueued ~> (g[r].activations > 0 /\ Terminal(r))

\* C9 witness: a request that was enqueued behind another one has reached a
\* terminal state.
C9_Witness == \E r \in ReqIds : g[r].behind /\ Terminal(r)

\* C10: admission is FIFO: of two requests that were never put back by the
\* busy rule, the one enqueued later is not Active before the one enqueued
\* earlier has been taken on, whatever their rooms are.
C10_FifoAdmission ==
    \A r1, r2 \in ReqIds :
        (/\ r1 < r2
         /\ g[r1].enqueued /\ g[r2].enqueued
         /\ g[r1].requeues = 0 /\ g[r2].requeues = 0
         /\ g[r2].activations > 0)
        => g[r1].activations > 0

\* C10 witness: two requests for different rooms have both been taken on.
C10_Witness ==
    \E r1, r2 \in ReqIds :
        /\ r1 < r2
        /\ g[r1].activations > 0 /\ g[r2].activations > 0
        /\ g[r1].request.room_id # g[r2].request.room_id

\* C11: the start, chunk and end events of a request go to the room the
\* registry recorded as the sender's current room when the chat message was
\* handled: that room is the target of the call whatever the requester's
\* current room is later, and no connection outside the target room's
\* subscribers receives a start, chunk or end event.
C11_EventsToOriginatingRoom ==
    \A r \in ReqIds :
        g[r].activations > 0 =>
            /\ g[r].sent_in # None
            /\ g[r].request.room_id = g[r].sent_in
            /\ h[r].room_id = g[r].sent_in
            /\ \A k \in 1..Len(trace[r]) :
                  trace[r][k].type \in {"start", "chunk", "end"}
                      => trace[r][k].outside = {}

\* C11 witness: a call is in its chunk loop with a chunk still to emit, the
\* requester has switched to another room since, and another connection is
\* subscribed to the room the message was sent in.
C11_Witness ==
    \E r \in ReqIds, sid \in SIDs :
        /\ h[r].pc = "sleep" /\ h[r].i <= Len(h[r].chunks)
        /\ users[sid] = g[r].request.username
        /\ user_current_rooms[sid] # g[r].sent_in
        /\ <<sid, g[r].sent_in>> \notin sio_rooms
        /\ \E other \in SIDs \ {sid} : <<other, g[r].sent_in>> \in sio_rooms

\* C12: no two distinct connections are registered with the same display
\* name, whatever the interleaving of user_join and disconnect; a user_join
\* is rejected with 'Username already taken', the registry unchanged, exactly
\* when a different connection holds the name, and otherwise it succeeds and
\* the connection is bound to the new name only.
C12_UniqueDisplayNames ==
    /\ [](\A a, b \in SIDs : (a # b /\ users[a] # NoName) => users[a] # users[b])
    /\ [][\A sid \in SIDs, username \in Names :
            (out'.handler = "user_join" /\ user_join(sid, username)) =>
                IF \E s \in SIDs \ {sid} : users[s] = username
                THEN /\ out'.event = "error"
                     /\ out'.message = "Username already taken"
                     /\ out'.to = {sid}
                     /\ UNCHANGED << users, user_db_ids, user_current_rooms >>
                ELSE /\ out'.event = "user_joined"
                     /\ users' = [users EXCEPT ![sid] = username]
                     /\ user_db_ids'[sid] \in 1..Len(db_users')
                     /\ db_users'[user_db_ids'[sid]] = username]_vars

\* C12 witness: a connection registered under one name asked for the name
\* another connection holds, and was rejected.
C12_Witness ==
    /\ out.handler = "user_join" /\ out.message = "Username already taken"
    /\ users[out.sid] \notin {NoName, out.name}
    /\ \E s \in SIDs \ {out.sid} : users[s] = out.name

\* C13: every registered connection is in the delivery set of exactly one
\* room, after any sequence of user_join, join_room, leave_room, switch_room
\* and disconnect.
C13_ExactlyOneDeliverySet ==
    \A sid \in SIDs :
        users[sid] # NoName =>
            Cardinality({ p \in sio_rooms : p[1] = sid }) = 1

\* C14: once a handler has completed, a connection is subscribed to a room
\* if and only if that room is its recorded current room, and the sender of a
\* chat message is among the receivers of its broadcast.
C14_SubscriptionMatchesCurrentRoom ==
    /\ \A sid \in SIDs, room_id \in RoomIds \ {None} :
          (<<sid, room_id>> \in sio_rooms) <=> (user_current_rooms[sid] = room_id)
    /\ (out.handler = "chat_message" /\ out.event = "chat_message")
          => out.sid \in out.to

\* C15: no two rooms have the same name; a create_room for a name that
\* exists is rejected as a duplicate and changes neither the store nor the
\* registry, and one for a new name adds exactly one room of that name, so of
\* two requests for the same name, in either arrival order, one succeeds.
C15_UniqueRoomNames ==
    /\ [](\A r1, r2 \in db_rooms : r1.name = r2.name => r1 = r2)
    /\ [][\A sid \in SIDs, room_name \in RoomNames :
            (/\ out'.handler = "create_room"
             /\ Authenticated(sid) /\ create_room(sid, room_name)) =>
                IF \E r \in db_rooms : r.name = room_name
                THEN /\ out'.event = "error"
                     /\ out'.message = "Room already exists"
                     /\ UNCHANGED << storeVars, presenceVars >>
                ELSE /\ out'.event = "room_created"
                     /\ db_rooms \subseteq db_rooms'
                     /\ Cardinality(db_rooms') = Cardinality(db_rooms) + 1
                     /\ \E r \in db_rooms' \ db_rooms :
                           r.name = room_name /\ r.created_by = user_db_ids[sid]]_vars

\* C15 witness: a connection asked for the name of a room that another
\* identity created, and was rejected.
C15_Witness ==
    /\ out.handler = "create_room" /\ out.message = "Room already exists"
    /\ \E r \in db_rooms :
          /\ r.name = out.name
          /\ r.created_by \notin {None, user_db_ids[out.sid]}

\* C16: after a successful create_room the creator is a member of the new
\* room with the role 'admin'.
C16_CreatorIsAdmin ==
    (out.handler = "create_room" /\ out.event = "room_created") =>
        \E m \in db_members :
            /\ m.room_id = out.room_id
            /\ m.user_id = user_db_ids[out.sid]
            /\ m.role = "admin"

\* C17: a delete_room of the default room by a registered connection fails
\* with 'Cannot delete default room', and the room is still there.
C17_DefaultRoomUndeletable ==
    (/\ out.handler = "delete_room"
     /\ out.room_id = default_room_id
     /\ users[out.sid] # NoName)
    => (/\ out.event = "error"
        /\ out.message = "Cannot delete default room"
        /\ \E r \in db_rooms : r.id = default_room_id /\ r.name = "General")

\* C18: a room leaves the table only in a delete_room of its creator; a
\* delete_room for an unknown id fails with 'Room not found' and one by
\* another identity with 'Only room creator can delete the room', the error
\* going to the requester alone and rooms, memberships and messages unchanged.
C18_OnlyCreatorDeletes ==
    /\ [][\A r \in db_rooms \ db_rooms' :
            /\ out'.handler = "delete_room" /\ out'.event = "room_deleted"
            /\ out'.room_id = r.id
            /\ r.created_by = user_db_ids[out'.sid]]_vars
    /\ [][\A sid \in SIDs, room_id \in RoomIds \ {None} :
            (/\ out'.handler = "delete_room"
             /\ Authenticated(sid) /\ delete_room(sid, room_id)) =>
                IF ~ \E r \in db_rooms : r.id = room_id
                THEN /\ out'.event = "error" /\ out'.message = "Room not found"
                     /\ out'.to = {sid}
                     /\ UNCHANGED storeVars
                ELSE IF \E r \in db_rooms : r.id = room_id /\ r.created_by # user_db_ids[sid]
                THEN /\ out'.event = "error"
                     /\ out'.message = "Only room creator can delete the room"
                     /\ out'.to = {sid}
                     /\ UNCHANGED storeVars
                ELSE out'.event = "room_deleted"]_vars

\* C18 witness: a delete_room by an identity that is not the creator was
\* rejected for a room that holds a message and a member.
C18_Witness ==
    /\ out.handler = "delete_room"
    /\ out.message = "Only room creator can delete the room"
    /\ out.room_id # default_room_id
    /\ \E k \in 1..Len(db_messages) : db_messages[k].room_id = out.room_id
    /\ \E m \in db_members : m.room_id = out.room_id

\* C19: a successful delete_room of a room leaves no message and no
\* membership of that room, removes that room only, and keeps the messages
\* (in order) and the memberships of every other room.
C19_DeleteCascades ==
    [][\A sid \in SIDs, room_id \in RoomIds \ {None} :
          (out'.event = "room_deleted" /\ delete_room(sid, room_id)) =>
              /\ \A k \in 1..Len(db_messages') : db_messages'[k].room_id # room_id
              /\ \A m \in db_members' : m.room_id # room_id
              /\ LET other(m) == m.room_id # room_id
                 IN  db_messages' = SelectSeq(db_messages, other)
              /\ db_members' = { m \in db_members : m.room_id # room_id }
              /\ db_rooms' = { r \in db_rooms : r.id # room_id }
              /\ db_users' = db_users]_vars

\* C19 witness: a room was deleted that held a message, and a message and the
\* memberships of the default room are still there.
C19_Witness ==
    /\ out.handler = "delete_room" /\ out.event = "room_deleted"
    /\ clock = 2 /\ Len(db_messages) = 1
    /\ Cardinality(db_members) = 2

\* the membership relation as (identity, room) pairs
MemberPairs(members) == { <<m.user_id, m.room_id>> : m \in members }

\* C20: every join_room and leave_room acts on the membership relation as it
\* is when the request arrives: a join adds the pair, a leave removes it,
\* nothing else changes, a pair is never held twice, and a join by a member
\* is rejected with 'User already in room' and changes no membership,
\* subscription or current room.
C20_MembershipNetEffect ==
    /\ [](\A m1, m2 \in db_members :
             (m1.user_id = m2.user_id /\ m1.room_id = m2.room_id) => m1 = m2)
    /\ [][\A sid \in SIDs, room_id \in RoomIds \ {None} :
            LET pair == <<user_db_ids[sid], room_id>>
                pairs == MemberPairs(db_members)
            IN  /\ (/\ out'.handler = "join_room"
                    /\ Authenticated(sid) /\ join_room(sid, room_id)) =>
                      IF ~ \E r \in db_rooms : r.id = room_id
                      THEN /\ out'.message = "Room not found"
                           /\ UNCHANGED << db_members, sio_rooms, user_current_rooms >>
                      ELSE IF pair \in pairs
                      THEN /\ out'.event = "error"
                           /\ out'.message = "User already in room"
                           /\ UNCHANGED << db_members, sio_rooms, user_current_rooms >>
                      ELSE /\ out'.event = "room_joined"
                           /\ MemberPairs(db_members') = pairs \cup {pair}
                /\ (/\ out'.handler = "leave_room"
                    /\ Authenticated(sid) /\ leave_room(sid, room_id)) =>
                      IF room_id = default_room_id
                      THEN /\ out'.message = "Cannot leave default room"
                           /\ UNCHANGED db_members
                      ELSE MemberPairs(db_members') = pairs \ {pair}]_vars

\* C20 witness: a member of a room other than the default room asked to join
\* it again and was rejected, while another identity is a member too.
C20_Witness ==
    /\ out.handler = "join_room" /\ out.message = "User already in room"
    /\ out.room_id # default_room_id
    /\ Cardinality({ m \in db_members : m.room_id = out.room_id }) = 2

\* C21: every identity in the users table is a member of the default room
\* in every state, and a leave_room for the default room is rejected with
\* 'Cannot leave default room', membership and subscriptions unchanged.
C21_DefaultMembershipKept ==
    /\ [](\A user_id \in 1..Len(db_users) : IsMember(user_id, default_room_id))
    /\ [][\A sid \in SIDs :
            (/\ out'.handler = "leave_room"
             /\ Authenticated(sid) /\ leave_room(sid, default_room_id)) =>
                /\ out'.event = "error"
                /\ out'.message = "Cannot leave default room"
                /\ out'.to = {sid}
                /\ UNCHANGED << db_members, sio_rooms >>]_vars

\* C21 witness: a leave_room for the default room was rejected while two
\* identities are registered and a room has been created and deleted again.
C21_Witness ==
    /\ out.handler = "leave_room" /\ out.message = "Cannot leave default room"
    /\ Len(db_users) = 2
    /\ Cardinality(db_rooms) = 1
    /\ \E sid \in SIDs : <<sid, default_room_id + 1>> \in sio_rooms

\* C22: a non-empty chat message of a registered connection is appended to
\* the messages table, in the sender's current room, and delivered to exactly
\* the connections subscribed to that room; every delivered message is in the
\* table, and every connection receives the messages of one room in the
\* order in which they were persisted.
C22_PersistThenBroadcastInOrder ==
    /\ [](\A s \in SIDs : \A i, j \in 1..Len(inbox[s]) :
             (i < j /\ inbox[s][i].room_id = inbox[s][j].room_id)
                 => inbox[s][i].timestamp < inbox[s][j].timestamp)
    /\ [](\A s \in SIDs : \A i \in 1..Len(inbox[s]) :
             /\ inbox[s][i].timestamp \in 1..Len(db_messages)
             /\ db_messages[inbox[s][i].timestamp].room_id = inbox[s][i].room_id)
    /\ [][\A sid \in SIDs, content \in PlainTexts :
            (/\ out'.handler = "chat_message"
             /\ users[sid] # NoName /\ chat_message(sid, content)) =>
                LET room_id == user_current_rooms[sid]
                    to == { s \in SIDs : <<s, room_id>> \in sio_rooms }
                    sent == [timestamp |-> Len(db_messages) + 1, room_id |-> room_id]
                IN  /\ Len(db_messages') = Len(db_messages) + 1
                    /\ SubSeq(db_messages', 1, Len(db_messages)) = db_messages
                    /\ db_messages'[Len(db_messages')].content = content
                    /\ db_messages'[Len(db_messages')].room_id = room_id
                    /\ db_messages'[Len(db_messages')].user_id = user_db_ids[sid]
                    /\ out'.to = to
                    /\ \A s \in SIDs :
                          inbox'[s] = IF s \in to THEN Append(inbox[s], sent)
                                                  ELSE inbox[s]]_vars

\* C22 witness: two messages of one room, by two senders, have been
\* delivered to both connections, and one of them is in another room now.
C22_Witness ==
    /\ \A s \in SIDs :
          /\ Len(inbox[s]) = 2
          /\ inbox[s][1].room_id = inbox[s][2].room_id
    /\ Len(db_messages) = 2 /\ db_messages[1].user_id # db_messages[2].user_id
    /\ \E s \in SIDs : user_current_rooms[s] # db_messages[2].room_id

\* a mention starts at position i of text t and ends at position e: '@',
\* then only whitespace, then 'a' and 'i' in any letter case
MentionAt(t, i, e) ==
    /\ 1 <= i /\ i + 2 <= e /\ e <= Len(t)
    /\ t[i] = "@"
    /\ \A k \in (i + 1)..(e - 2) : t[k] = " "
    /\ t[e - 1] \in {"a", "A"} /\ t[e] \in {"i", "I"}
\* the positions of t that lie in no mention
Outside(t) ==
    { k \in 1..Len(t) :
        ~ \E i \in 1..k, e \in k..Len(t) : MentionAt(t, i, e) }
\* the characters of t at the positions in P, in order
RECURSIVE Keep(_, _, _)
Keep(t, P, k) ==
    IF k > Len(t) THEN <<>>
    ELSE (IF k \in P THEN <<t[k]>> ELSE <<>>) \o Keep(t, P, k + 1)
\* t without the whitespace at its ends
Trimmed(t) ==
    LET solid == { k \in 1..Len(t) : t[k] # " " }
    IN  IF solid = {} THEN <<>>
        ELSE SubSeq(t, CHOOSE k \in solid : \A l \in solid : k <= l,
                       CHOOSE k \in solid : \A l \in solid : l <= k)

\* C23: a chat message enqueues exactly one AI request if its text holds a
\* mention ('@', optional whitespace, 'ai' in any letter case, anywhere) and
\* none otherwise; the request carries the sender's current room, the author
\* and the message timestamp, and its query is the text with every mention
\* removed and trimmed, or the whole text when nothing is left.
C23_MentionEnqueuesOneRequest ==
    db_messages # <<>> =>
        LET content == db_messages[1].content
            mentioned == \E i, e \in 1..Len(content) : MentionAt(content, i, e)
            rest == Trimmed(Keep(content, Outside(content), 1))
        IN  IF mentioned
            THEN /\ Len(ai_queue) = 1
                 /\ ai_queue[1].room_id = user_current_rooms[out.sid]
                 /\ ai_queue[1].user_db_id = user_db_ids[out.sid]
                 /\ ai_queue[1].username = users[out.sid]
                 /\ ai_queue[1].timestamp = clock
                 /\ ai_queue[1].query = (IF rest # <<>> THEN rest ELSE content)
            ELSE ai_queue = <<>>

\* C23 witness: a text with two mentions, one of them with whitespace after
\* the '@', has enqueued one request; nothing is left of the text, and the
\* query is the whole text.
C23_Witness ==
    /\ Len(db_messages) = 1 /\ Len(ai_queue) = 1
    /\ db_messages[1].content = <<"@", " ", "a", "I", "@", "a", "I">>
    /\ ai_queue[1].query = db_messages[1].content

\* the positions in the store of the messages of a room, and of its (at
\* most) context_limit last ones
PositionsOf(room_id) == { i \in 1..Len(db_messages) : db_messages[i].room_id = room_id }
LastPositionsOf(room_id) ==
    { i \in PositionsOf(room_id) :
        Cardinality({ j \in PositionsOf(room_id) : j > i }) < context_limit }
\* the k-th smallest element of a set of numbers
Nth(S, k) == CHOOSE i \in S : Cardinality({ j \in S : j < i }) = k - 1

\* C24: the prompt built when a request becomes Active is the system
\* instruction, then at most the 10 most recently persisted messages of the
\* request's target room, oldest first (an AI message as an assistant turn, a
\* human message as a user turn prefixed with the author name), then the
\* query as the last user turn; no message of another room is in it.
C24_PromptIsRecentRoomContext ==
    [][\A r \in ReqIds :
          (h[r].pc = "begin" /\ h'[r].pc = "await") =>
              LET prompt == h'[r].messages
                  room_id == g[r].request.room_id
                  recent == LastPositionsOf(room_id)
              IN  /\ Len(prompt) = Cardinality(recent) + 2
                  /\ Cardinality(recent) <= 10
                  /\ prompt[1].role = "system"
                  /\ prompt[1].content = SystemTurn.content
                  /\ prompt[Len(prompt)] = [role |-> "user", content |-> g[r].request.query]
                  /\ \A k \in 1..Cardinality(recent) :
                        LET msg == db_messages[Nth(recent, k)]
                        IN  /\ msg.room_id = room_id
                            /\ msg.is_ai =>
                                  prompt[k + 1] = [role |-> "assistant", content |-> msg.content]
                            /\ ~ msg.is_ai =>
                                  /\ prompt[k + 1].role = "user"
                                  /\ prompt[k + 1].content =
                                        <<"[", db_users[msg.user_id], "]", ":", " ">> \o msg.content]_vars

\* C24 witness: a prompt was built for a room that holds more than 10
\* messages, an AI response among the last 10, while the other room holds
\* messages too, one of them newer than the oldest message of the prompt.
C24_Witness ==
    \E r \in ReqIds :
        /\ h[r].pc = "await" /\ Len(h[r].messages) = 12
        /\ Cardinality(PositionsOf(h[r].room_id)) > 10
        /\ \E i \in LastPositionsOf(h[r].room_id) : db_messages[i].is_ai
        /\ \E i \in LastPositionsOf(h[r].room_id), j \in 1..Len(db_messages) :
              i < j /\ db_messages[j].room_id # h[r].room_id

\* the step sent an error notice to connection sid alone and changed neither
\* the registry, the subscriptions, the store, the queue nor any feed
RejectedLocally(sid) ==
    /\ out'.event = "error" /\ out'.to = {sid}
    /\ UNCHANGED << users, user_db_ids, user_current_rooms, sio_rooms, db_users,
                    db_rooms, db_members, db_messages, ai_queue, inbox >>

\* C25: an empty or whitespace-only chat message, an empty display name and
\* an empty room name each persist nothing, broadcast nothing, enqueue
\* nothing and cause an error notice to the originating connection alone.
C25_InvalidInputRejectedWithNotice ==
    [][\A sid \in SIDs :
          /\ (out'.handler = "user_join" /\ user_join(sid, NoName))
                => RejectedLocally(sid)
          /\ (out'.handler = "create_room" /\ Authenticated(sid) /\ create_room(sid, NoName))
                => RejectedLocally(sid)
          /\ \A raw \in RawTexts :
                (/\ out'.handler = "chat_message"
                 /\ users[sid] # NoName /\ Strip(raw) = <<>>
                 /\ chat_message(sid, Strip(raw)))
                    => RejectedLocally(sid)]_vars

\* C26: a disconnect of a registered connection removes its name, database
\* id and current room and sends one 'user_left' notice to all connections
\* whose user count is the number of connections still registered; a
\* disconnect of an unregistered connection changes nothing and sends nothing.
C26_DisconnectFreesIdentity ==
    [][\A sid \in SIDs :
          (out'.handler = "disconnect" /\ disconnect(sid)) =>
              IF users[sid] # NoName
              THEN /\ users'[sid] = NoName
                   /\ user_db_ids'[sid] = None
                   /\ user_current_rooms'[sid] = None
                   /\ \A s \in SIDs \ {sid} :
                         /\ users'[s] = users[s]
                         /\ user_db_ids'[s] = user_db_ids[s]
                         /\ user_current_rooms'[s] = user_current_rooms[s]
                   /\ out'.event = "user_left"
                   /\ out'.to = SIDs \ {sid}
                   /\ out'.user_count = Cardinality({ s \in SIDs \ {sid} : users[s] # NoName })
              ELSE /\ UNCHANGED << users, user_db_ids, user_current_rooms, sio_rooms,
                                   db_users, db_rooms, db_members, db_messages,
                                   ai_queue, inbox >>
                   /\ out'.event = "none" /\ out'.to = {}]_vars

\* C26 witness: a registered connection has disconnected while another one
\* was registered; the notice counts one user.
C26_Witness ==
    /\ out.handler = "disconnect" /\ out.event = "user_left"
    /\ out.user_count = 1
    /\ users[out.sid] = NoName
    /\ \E s \in SIDs : users[s] # NoName

\* C27: a disconnect of the requester while its request is queued or Active
\* does not cancel it: the disconnect leaves the queue, the worker and the
\* running call as they are, the request is still taken on and ends, its
\* events go to the target room, and on success its AI message is persisted
\* with triggered_by = the requester.
C27_DisconnectDoesNotCancel ==
    /\ [][\A sid \in SIDs :
            (out'.handler = "disconnect" /\ disconnect(sid)) =>
                UNCHANGED << ai_queue, ai_processing, wpc, wreq, h, trace, g, db_messages >>]_vars
    /\ \A r \in ReqIds : g[r].enqueued ~> (g[r].activations > 0 /\ Terminal(r))
    /\ [](\A r \in ReqIds :
            /\ \A k \in 1..Len(trace[r]) :
                  trace[r][k].type # "failed" => trace[r][k].outside = {}
            /\ g[r].outcome = "completed" =>
                  /\ \E k \in 1..Len(trace[r]) : trace[r][k].type = "end"
                  /\ \E i \in 1..Len(db_messages) :
                        /\ db_messages[i].is_ai /\ db_messages[i].req = r
                        /\ db_messages[i].room_id = g[r].request.room_id
                        /\ db_messages[i].triggered_by = g[r].request.user_db_id
                        /\ db_messages[i].triggered_by # None)

\* C27 witness: the requester sent one request and is gone (it disconnected
\* while the request was queued or Active, and did not come back); the
\* request has completed, with its events sent to the listener and its AI
\* message persisted under the requester's database id.
C27_Witness ==
    /\ clock = 1 /\ users["s1"] = NoName /\ users["s2"] # NoName
    /\ g[1].request.username = NameOf["s1"]
    /\ g[1].outcome = "completed" /\ Len(trace[1]) >= 2
    /\ \E i \in 1..Len(db_messages) :
          /\ db_messages[i].req = 1 /\ db_messages[i].is_ai
          /\ db_messages[i].triggered_by = g[1].request.user_db_id

\* C28: while the provider call of a request is running, the event loop
\* admits other events: a chat message from any room is persisted, broadcast
\* and, with a mention, enqueued, and presence and room events complete,
\* while the generation stays in flight.
C28_LoopAdmitsEventsInFlight ==
    /\ [](\A r \in ReqIds : InFlight(r) =>
            \A sid \in SIDs :
                /\ ENABLED user_join(sid, NameOf[sid])
                /\ ENABLED disconnect(sid)
                /\ \A room_name \in RoomNames : ENABLED create_room(sid, room_name)
                /\ \A room_id \in RoomIds : ENABLED switch_room(sid, room_id)
                /\ clock < MaxChat =>
                      \A content \in Texts : ENABLED chat_message(sid, content))
    /\ [][\A r \in ReqIds : \A sid \in SIDs : \A content \in Texts :
            (/\ InFlight(r)
             /\ out'.handler = "chat_message" /\ users[sid] # NoName
             /\ chat_message(sid, content)) =>
                LET room_id == user_current_rooms[sid]
                IN  /\ InFlight(r)' /\ h'[r] = h[r]
                    /\ Len(db_messages') = Len(db_messages) + 1
                    /\ db_messages'[Len(db_messages')].content = content
                    /\ db_messages'[Len(db_messages')].room_id = room_id
                    /\ out'.event = "chat_message"
                    /\ out'.to = { s \in SIDs : <<s, room_id>> \in sio_rooms }
                    /\ IF \E i, e \in 1..Len(content) : MentionAt(content, i, e)
                       THEN /\ Len(ai_queue') = Len(ai_queue) + 1
                            /\ ai_queue'[Len(ai_queue')].timestamp = clock'
                            /\ ai_queue'[Len(ai_queue')].room_id = room_id
                       ELSE ai_queue' = ai_queue]_vars
    /\ [][\A r \in ReqIds :
            (InFlight(r) /\ out' # out) => (InFlight(r)' /\ h'[r] = h[r])]_vars

\* C28 witness: the generation of the first request is still in flight; since
\* it started the second connection has registered, the requester has created
\* a room and moved to it, and its mention from that room has been persisted,
\* delivered to it and enqueued.
C28_Witness ==
    /\ InFlight(1) /\ users["s2"] # NoName
    /\ g[1].request.room_id = default_room_id
    /\ Len(ai_queue) = 1 /\ ai_queue[1].timestamp = 2 /\ ai_queue[1].room_id = 2
    /\ Len(db_messages) = 2 /\ db_messages[2].room_id = 2
    /\ Len(inbox["s1"]) = 2 /\ inbox["s1"][2].room_id = 2

\* C29 as stated: ai_processing is true exactly while the worker is in its
\* call of handle_ai_request for one request, and false when it waits to
\* dequeue.
C29_FlagExactlyWhileHandling ==
    /\ ai_processing <=> wpc = "handle"
    /\ wpc = "get" => ~ ai_processing

\* C29: ai_processing is true exactly from the moment the worker has taken a
\* request until its finally clause: during the call of handle_ai_request
\* for that one request and, when the call raised, during the 'ai_error'
\* emit of the except clause; it is false whenever the worker waits to
\* dequeue, so it is false whenever the worker tests it after a dequeue.
C29_FlagWhileProcessing ==
    /\ [](ai_processing <=> wpc \in {"handle", "finally", "finally_exc"})
    /\ [](wpc \in {"get", "sleep1"} => \A r \in ReqIds : ~ Active(r))
    /\ [](wpc = "handle" => \A r \in ReqIds : Active(r) => r = wreq)
    /\ [](wpc \in {"finally", "finally_exc"} =>
            /\ h[wreq].pc = "raised"
            /\ \A r \in ReqIds : ~ Active(r))
    /\ [][WorkerTake => (~ ai_processing /\ ai_processing' /\ h'[wreq'].pc = "begin")]_vars

\* C29 witness: the worker has dequeued a request that waited behind an
\* earlier one whose call raised, found the flag false and set it for the
\* new request.
C29_Witness ==
    \E r1, r2 \in ReqIds :
        /\ r1 < r2 /\ g[r2].behind /\ g[r2].requeues = 0
        /\ g[r1].outcome = "failed" /\ h[r1].pc = "raised"
        /\ wpc = "handle" /\ wreq = r2 /\ h[r2].pc = "begin" /\ ai_processing

\* C30: every message that is persisted, a chat message or an AI response,
\* goes into a room that exists at that moment; after a room is deleted no
\* chat_message of a connection whose current room it was, and no AI request
\* for it, persists a message into it.
C30_PersistedIntoExistingRoom ==
    [][Len(db_messages') > Len(db_messages) =>
          \E r \in db_rooms : r.id = db_messages'[Len(db_messages')].room_id]_vars

\* C31: a chat message is persisted only into a room of which its author is
\* a member at that time, and broadcast only to that room: after leave_room
\* of room R, a chat_message of the connection does not reach R.
C31_AuthorIsMemberOfRoom ==
    [][(out'.handler = "chat_message" /\ Len(db_messages') > Len(db_messages)) =>
          LET msg == db_messages'[Len(db_messages')]
          IN  /\ msg.user_id = user_db_ids[out'.sid]
              /\ out'.room_id = msg.room_id
              /\ IsMember(msg.user_id, msg.room_id)]_vars

\* C32: once no handler is suspended, the three presence maps have the same
\* keys: a connection has a name exactly if it has a database id and exactly
\* if it has a current room, so no entry survives a disconnect, also when the
\* disconnect runs at an await of a join_room or switch_room of the connection.
C32_PresenceMapsSameKeys ==
    (\A s \in SIDs : pending[s] = NoPending) =>
        \A sid \in SIDs :
            /\ users[sid] = NoName <=> user_db_ids[sid] = None
            /\ users[sid] = NoName <=> user_current_rooms[sid] = None

\* the types of the events emitted for request r, in order
EventTypes(r) == [k \in 1..Len(trace[r]) |-> trace[r][k].type]

\* C33: when the provider fails after it has produced fragments, no chunk
\* event is emitted for the request: its events are the start event followed
\* directly by the failure event; chunk events are emitted only for requests
\* whose provider stream ended without error.
C33_NoChunksAfterMidStreamFailure ==
    \A r \in ReqIds :
        /\ h[r].prov = "raised" =>
              /\ NumChunkEvents(r) = 0
              /\ EventTypes(r) \in {<<"start">>, <<"start", "failed">>}
        /\ NumChunkEvents(r) > 0 => h[r].prov = "returned"

\* C33 witness: a request whose provider raised after a fragment has ended
\* with the start and the failure event, and a later request has chunk events.
C33_Witness ==
    \E r1, r2 \in ReqIds :
        /\ h[r1].prov = "raised" /\ g[r1].outcome = "failed"
        /\ EventTypes(r1) = <<"start", "failed">>
        /\ r1 < r2 /\ h[r2].prov = "returned" /\ NumChunkEvents(r2) > 0

====
